---- MODULE Spec2Model ----
(***************************************************************************)
(* EAGLE speculative-decoding training adapter                             *)
(* (modelopt/torch/speculative/plugins/transformers.py).                   *)
(*                                                                         *)
(* The module models HFEagleModel.forward (the four-step rollout),         *)
(* EagleModule.forward with its tree attention mask builder, the draft     *)
(* key/value cache, and HFEagleModel._eagle_loss.                          *)
(*                                                                         *)
(* Conventions.                                                            *)
(*  - Tensors are sequences; the batch dimension is one and is dropped.    *)
(*    Python index j is TLA+ index j + 1.                                  *)
(*  - None is the empty sequence <<>> (every tensor has length >= 1); an   *)
(*    absent attention mask is NoneMask.                                   *)
(*  - Attention mask values are counted in units of |finfo(dtype).min|:    *)
(*    0 attends, FinfoMin is the blocking sentinel, and anything below     *)
(*    the representable range is NegInf (float overflow).                  *)
(*  - Real numbers are fixed point: probabilities in 1/1000, logarithms    *)
(*    and the two auxiliary losses in 1/100, the total loss in 1/100000.   *)
(***************************************************************************)
EXTENDS Integers, Sequences, FiniteSets

\* ------------------------------------------------------------------ bounds
MaxSeq == 4       \* sequence lengths 1..MaxSeq
Vocab == 2        \* vocabulary size
Hidden == 1       \* hidden width
PeakLogit == 1    \* height of the peak of a peaked logit row
MaxLayers == 2    \* number of draft decoder layers, 1 or MaxLayers
MaxCache == 6     \* cache lengths 0..MaxCache in direct calls of the mask builder
SatLogit == 12    \* a logit gap at which the fixed-point softmax saturates

\* ------------------------------------------------------- program constants
Steps == 4          \* for i in range(4)
NumWeights == 4     \* loss_weight = [0.8 ** i for i in range(4)]
DecayTenths == 8    \* 0.8
ShiftUntil == 3     \* if i < 3
SumRange == 4       \* sum([... for i in range(4)])
FinfoMin == -1      \* torch.finfo(dtype).min, the unit of the mask values
EpsInv == 100000    \* 1 / 1e-5

NegInf == 2 * FinfoMin
NoneT == <<>>
NoneMask == [id |-> 0, data |-> <<>>]

Min(a, b) == IF a < b THEN a ELSE b
Max(a, b) == IF a > b THEN a ELSE b
Abs(a) == IF a < 0 THEN 0 - a ELSE a

RECURSIVE SumSeq(_)
SumSeq(s) == IF s = <<>> THEN 0 ELSE Head(s) + SumSeq(Tail(s))

RECURSIVE MaxSeqVal(_)
MaxSeqVal(s) == IF Len(s) = 1 THEN s[1] ELSE Max(Head(s), MaxSeqVal(Tail(s)))

\* ---------------------------------------------------- fixed-point numerics
\* e^(-d) in 1/1000 for an integer d >= 0 (underflows to 0, as a float does)
RECURSIVE ExpNeg(_)
ExpNeg(d) == IF d = 0 THEN 1000 ELSE (ExpNeg(d - 1) * 368) \div 1000

\* how often z (in 1/1000, z >= 1000) can be divided by the factor f (in 1/1000)
RECURSIVE CountDiv(_, _)
CountDiv(z, f) == IF z >= f THEN 1 + CountDiv((z * 1000) \div f, f) ELSE 0

RECURSIVE RemDiv(_, _)
RemDiv(z, f) == IF z >= f THEN RemDiv((z * 1000) \div f, f) ELSE z

\* ln(z / 1000) in 1/100, for z >= 1000: e, e^0.1 and e^0.01 are the factors
LnCenti(z) ==
  LET r1 == RemDiv(z, 2718)
      r2 == RemDiv(r1, 1105)
  IN 100 * CountDiv(z, 2718) + 10 * CountDiv(r1, 1105) + CountDiv(r2, 1010)

\* nn.Softmax over one row of logits (computed max-shifted, as torch does), 1/1000
SoftmaxRow(row) ==
  LET m == MaxSeqVal(row)
      z == SumSeq([v \in 1..Len(row) |-> ExpNeg(m - row[v])])
  IN [v \in 1..Len(row) |-> (ExpNeg(m - row[v]) * 1000) \div z]

\* minus nn.LogSoftmax over one row of logits, in 1/100 (every entry >= 0)
NegLogSoftmaxRow(row) ==
  LET m == MaxSeqVal(row)
      z == SumSeq([v \in 1..Len(row) |-> ExpNeg(m - row[v])])
  IN [v \in 1..Len(row) |-> 100 * (m - row[v]) + LnCenti(z)]

\* nn.SmoothL1Loss(reduction="none") (beta = 1) of an integer difference, 1/100
SmoothL1(d) == IF d = 0 THEN 0 ELSE 100 * Abs(d) - 50

\* ------------------------------------------------------ HFEagleModel._eagle_loss
\* x / (m + 1e-5) for x >= 0, rounded down
DivMaskSum(x, m) == (x * EpsInv) \div (m * EpsInv + 1)

\* sum over the vocabulary of Softmax(logits) * LogSoftmax(eagle_logits) at one
\* position, negated, in 1/100
SoftCrossEntropyRow(row, eagle_row) ==
  LET p == SoftmaxRow(row)
      q == NegLogSoftmaxRow(eagle_row)
  IN SumSeq([v \in 1..Len(row) |-> p[v] * q[v]]) \div 1000

\* torch.mean over the feature axis of the smooth-L1 loss at one position, 1/100
SmoothL1Row(eagle_h, h) ==
  SumSeq([k \in 1..Len(h) |-> SmoothL1(eagle_h[k] - h[k])]) \div Len(h)

\* faulty variant: the two results are returned in the other order
EagleLossSwapped(hidden_states, logits, eagle_hidden_states, eagle_logits, loss_mask) ==
  LET n == Len(loss_mask)
      m == SumSeq(loss_mask)
      c == SumSeq([j \in 1..n |-> loss_mask[j] * SoftCrossEntropyRow(logits[j], eagle_logits[j])])
      r == SumSeq([j \in 1..n |-> loss_mask[j] * SmoothL1Row(eagle_hidden_states[j], hidden_states[j])])
  IN [regression_loss |-> DivMaskSum(c, m), classification_loss |-> DivMaskSum(r, m)]

\* faulty variant: every position counts, whatever the loss mask holds
EagleLossUnmasked(hidden_states, logits, eagle_hidden_states, eagle_logits, loss_mask) ==
  LET n == Len(loss_mask)
      c == SumSeq([j \in 1..n |-> SoftCrossEntropyRow(logits[j], eagle_logits[j])])
      r == SumSeq([j \in 1..n |-> SmoothL1Row(eagle_hidden_states[j], hidden_states[j])])
  IN [regression_loss |-> DivMaskSum(r, n), classification_loss |-> DivMaskSum(c, n)]

EagleLoss(hidden_states, logits, eagle_hidden_states, eagle_logits, loss_mask) ==
  LET n == Len(loss_mask)
      m == SumSeq(loss_mask)
      c == SumSeq([j \in 1..n |-> loss_mask[j] * SoftCrossEntropyRow(logits[j], eagle_logits[j])])
      r == SumSeq([j \in 1..n |-> loss_mask[j] * SmoothL1Row(eagle_hidden_states[j], hidden_states[j])])
  IN [regression_loss |-> DivMaskSum(r, m), classification_loss |-> DivMaskSum(c, m)]

\* nn.CrossEntropyLoss() of the flattened logits against the labels (mean), 1/100
CrossEntropyLoss(logits, labels) ==
  SumSeq([j \in 1..Len(labels) |-> NegLogSoftmaxRow(logits[j])[labels[j]]]) \div Len(labels)

\* ------------------------------------------------------------ attention masks
Full(tgt, src, val) == [r \in 1..tgt |-> [c \in 1..src |-> val]]

\* float addition of two mask values: below the representable range is -inf
MaskAdd(a, b) == Max(a + b, NegInf)

\* make_causal_mask(input_shape, dtype, past_key_values_length)
MakeCausalMask(tgt, past) ==
  [r \in 1..tgt |-> [c \in 1..(tgt + past) |-> IF c <= r + past THEN 0 ELSE FinfoMin]]

\* expand_mask(mask, dtype, tgt_len): [src] -> [tgt, src], 0 where mask is 1
ExpandMask(mask, tgt) ==
  [r \in 1..tgt |-> [c \in 1..Len(mask) |-> IF mask[c] = 1 THEN 0 ELSE FinfoMin]]

PrepareDecoderAttentionMask(attention_mask, seq_length, past) ==
  LET combined == IF seq_length > 1 THEN MakeCausalMask(seq_length, past) ELSE NoneT
      expanded == ExpandMask(attention_mask, seq_length)
  IN IF attention_mask = NoneT THEN combined
     ELSE IF combined = NoneT THEN expanded
     ELSE [r \in 1..seq_length |-> [c \in 1..Len(expanded[r]) |->
             MaskAdd(expanded[r][c], combined[r][c])]]

\* faulty variant: the whole of every cached block is unmasked
DiagonalCellsDense(tgt_len, src_len, seq_lens, past_key_values_length) ==
  (0..(tgt_len - 1)) \X (src_len..(src_len + past_key_values_length - 1))

\* the (row, column) pairs, Python indices, that the block loop sets to 0.0
\* faulty variant: the last cached block gets no diagonal
DiagonalCellsOneShort(tgt_len, src_len, seq_lens, past_key_values_length) ==
  LET num_diagonal_blocks == (past_key_values_length \div seq_lens) - 1
  IN {<<i, src_len + block_idx * seq_lens + i>> :
        block_idx \in 0..(num_diagonal_blocks - 1), i \in 0..(Min(tgt_len, seq_lens) - 1)}

DiagonalCells(tgt_len, src_len, seq_lens, past_key_values_length) ==
  LET num_diagonal_blocks == past_key_values_length \div seq_lens
      extended_src_len == src_len + past_key_values_length
  IN {<<i, src_len + block_idx * seq_lens + i>> :
        block_idx \in 0..(num_diagonal_blocks - 1), i \in 0..(Min(tgt_len, seq_lens) - 1)}
     \cap ((0..(tgt_len - 1)) \X (0..(extended_src_len - 1)))

\* a tensor is an object: id tells one object from another, data is its value
NewTensor(like, data) == [id |-> like.id + 1, data |-> data]

\* faulty variant: the mask is cloned when there is no cache yet
ReturnClonedMask(attention_mask) == NewTensor(attention_mask, attention_mask.data)

\* return attention_mask
ReturnInputMask(attention_mask) == attention_mask

PrepareTreeAttentionMask(attention_mask, seq_lens, past_key_values_length) ==
  IF attention_mask = NoneMask THEN NoneMask
  ELSE IF past_key_values_length = 0 THEN ReturnInputMask(attention_mask)
  ELSE
    LET tgt_len == Len(attention_mask.data)
        src_len == Len(attention_mask.data[1])
        cells == DiagonalCells(tgt_len, src_len, seq_lens, past_key_values_length)
    IN NewTensor(attention_mask,
         [r \in 1..tgt_len |-> [c \in 1..(src_len + past_key_values_length) |->
            IF <<r - 1, c - 1>> \in cells THEN 0
            ELSE IF c <= src_len THEN attention_mask.data[r][c]
            ELSE FinfoMin]])

\* ind[a:] and ind[:b] of ind = torch.arange(n), as sequences of Python indices
PySliceFrom(n, a) == [k \in 1..Max(n - a, 0) |-> a + k - 1]
PySliceTo(n, b) == [k \in 1..(IF b >= 0 THEN Min(b, n) ELSE Max(n + b, 0)) |-> k - 1]

\* faulty variant: the band does not move with the step, it is always the diagonal
BandCellsDiagonal(seq_length, i) ==
  {<<k, k>> : k \in 0..(seq_length - 1)}

\* the cells attention_mask[:, :, ind0, ind1] addresses (Python indices)
BandCells(seq_length, i) ==
  LET ind0 == PySliceFrom(seq_length, i)
      ind1 == PySliceTo(seq_length, seq_length - i)
  IN {<<ind0[k], ind1[k]>> : k \in 1..Min(Len(ind0), Len(ind1))}

BandShapesAgree(seq_length, i) ==
  Len(PySliceFrom(seq_length, i)) = Len(PySliceTo(seq_length, seq_length - i))

\* faulty variant: the band is written with 0.0 (allowed) instead of the sentinel
BlockBandAllow(attention_mask, seq_length, i) ==
  [attention_mask EXCEPT !.data =
     [r \in 1..Len(@) |-> [c \in 1..Len(@[r]) |->
        IF <<r - 1, c - 1>> \in BandCells(seq_length, i) THEN 0 ELSE @[r][c]]]]

\* attention_mask[:, :, ind0, ind1] = torch.finfo(attention_mask.dtype).min, in place
BlockBand(attention_mask, seq_length, i) ==
  [attention_mask EXCEPT !.data =
     [r \in 1..Len(@) |-> [c \in 1..Len(@[r]) |->
        IF <<r - 1, c - 1>> \in BandCells(seq_length, i) THEN FinfoMin ELSE @[r][c]]]]

\* ------------------------------------------------------------------- shifting
\* faulty variant: the tail is padded with the last element instead of zero
ShiftLeftRepeat(x, zero) == Tail(x) \o <<x[Len(x)]>>

\* torch.cat((x[:, 1:], zeropadding), dim=1)
ShiftLeft(x, zero) == Tail(x) \o <<zero>>

ZeroRow(n) == [v \in 1..n |-> 0]

\* ------------------------------------------------------------ the draft cache
\* DynamicCache(): one key/value length per layer that has been updated
NewCache(obj) == [obj |-> obj, layers |-> <<>>]

\* Cache.get_seq_length(): the length held for layer 0
GetSeqLength(cache) == IF Len(cache.layers) = 0 THEN 0 ELSE cache.layers[1]

\* faulty variant: the update replaces the layer's keys instead of appending to them
CacheUpdateReplace(cache, layer_idx, n) ==
  IF Len(cache.layers) <= layer_idx
  THEN [cache EXCEPT !.layers = Append(@, n)]
  ELSE [cache EXCEPT !.layers[layer_idx + 1] = n]

\* past_key_value.update(key_states, value_states, self.layer_idx, cache_kwargs)
CacheUpdate(cache, layer_idx, n) ==
  IF Len(cache.layers) <= layer_idx
  THEN [cache EXCEPT !.layers = Append(@, n)]
  ELSE [cache EXCEPT !.layers[layer_idx + 1] = @ + n]

\* the decoder layers in order, each appending its n new keys to the cache;
\* faulty variant: every layer stores its keys under layer index 0
RECURSIVE RunLayersSharedIndex(_, _, _, _, _)
RunLayersSharedIndex(cache, kv, idx, num, n) ==
  IF idx >= num THEN [cache |-> cache, kv |-> kv]
  ELSE LET c == CacheUpdate(cache, 0, n)
       IN RunLayersSharedIndex(c, Append(kv, c.layers[1]), idx + 1, num, n)

\* kv collects the number of keys each layer attends over
RECURSIVE RunLayers(_, _, _, _, _)
RunLayers(cache, kv, idx, num, n) ==
  IF idx >= num THEN [cache |-> cache, kv |-> kv]
  ELSE LET c == CacheUpdate(cache, idx, n)
       IN RunLayers(c, Append(kv, c.layers[idx + 1]), idx + 1, num, n)

\* EagleModule.forward, as far as the mask and the cache go
EagleModuleForward(attention_mask, seq, past_key_values, num) ==
  LET mask == PrepareTreeAttentionMask(attention_mask, seq, GetSeqLength(past_key_values))
      run == RunLayers(past_key_values, <<>>, 0, num, seq)
  IN [attention_mask |-> mask, past_key_values |-> run.cache, kv |-> run.kv]

\* ---------------------------------------------------------------- the inputs
SeqLens == 1..MaxSeq

Peak(v, h) == [u \in 1..Vocab |-> IF u = v THEN h ELSE 0]

\* logits whose row at position j peaks at a token that depends on j
PeakedLogits(S, o, h) == [j \in 1..S |-> Peak(((j + o) % Vocab) + 1, h)]

\* what the backbone may return as logits for a sequence of length S
BackboneLogits(S) == {PeakedLogits(S, o, PeakLogit) : o \in 0..(Vocab - 1)}

\* outputs.hidden_states[-1]
BackboneHidden(S) == [j \in 1..S |-> [k \in 1..Hidden |-> 1 + (j % 2)]]

\* token ids that run through the vocabulary, from either of two starts
InputIdsChoices(S) == {[j \in 1..S |-> (j + o) % Vocab] : o \in 0..1}

LossMaskChoices(S) == {NoneT} \cup {[j \in 1..S |-> IF j > lo THEN 1 ELSE 0] : lo \in 0..S}

\* absent, or given with the last position padding (all ones when S = 1)
AttentionMaskChoices(S) == {NoneT, [j \in 1..S |-> IF j = S /\ S > 1 THEN 0 ELSE 1]}

PositionIdsChoices(S) == {NoneT, [j \in 1..S |-> j]}

LabelsChoices(S) == {NoneT, [j \in 1..S |-> ((j + 1) % Vocab) + 1]}

ForwardArgs ==
  UNION {[input_ids : InputIdsChoices(S), attention_mask : AttentionMaskChoices(S),
          position_ids : PositionIdsChoices(S), labels : LabelsChoices(S),
          loss_mask : LossMaskChoices(S), freeze_base_model : BOOLEAN] : S \in SeqLens}

NoArgs == [input_ids |-> NoneT, attention_mask |-> NoneT, position_ids |-> NoneT,
           labels |-> NoneT, loss_mask |-> NoneT, freeze_base_model |-> TRUE]

NoOutputs == [logits |-> NoneT, hidden_states |-> NoneT, past_key_values |-> NewCache("none")]

NoResult == [loss |-> NoneT, logits |-> NoneT, eagle_logits |-> NoneT,
             past_key_values |-> NewCache("none"), hidden_states |-> NoneT]

\* what the draft layers and lm_head may produce at one step: the targets
\* themselves (a perfect draft), or a fixed guess
DraftOutputs(S, target_hidden_states, logits) ==
  {[eagle_hidden_states |-> target_hidden_states, eagle_logits |-> logits],
   [eagle_hidden_states |-> [j \in 1..S |-> [k \in 1..Hidden |-> 0]],
    eagle_logits |-> [j \in 1..S |-> Peak(1, PeakLogit)]]}

\* --------------------------------------------------------------------- state
VARIABLES
  num_layers,            \* eagle_num_layers, fixed when the model is built
  pc,                    \* "idle" | "backbone" | "rollout" | "done" | "error"
  args,                  \* the arguments of the forward call in progress
  outputs,               \* the backbone's ModelOutput
  eagle_cache,
  seq_length,
  hidden_states,
  logits,
  input_ids,
  loss_mask,
  attention_mask,
  original_position_ids,
  current_position_ids,
  i,
  loss_list,
  loss,
  eagle_logits,
  eagle_hidden_states,
  result,                \* the ModelOutput returned to the caller
  raised,                \* the exception that left forward, or "none"
  draft_calls,           \* history: what each EagleModule.forward call was given and did
  loss_calls,            \* history: what each _eagle_loss call returned
  nshift,                \* history: number of left shifts done in this call
  unit                   \* a direct call of one function: its arguments and result

locals == <<outputs, eagle_cache, seq_length, hidden_states, logits, input_ids, loss_mask,
            attention_mask, original_position_ids, current_position_ids, i, loss_list,
            loss, eagle_logits, eagle_hidden_states>>

history == <<draft_calls, loss_calls, nshift>>

vars == <<num_layers, pc, args, locals, result, raised, history, unit>>

NoUnit == [fn |-> "none"]

IdleLocals ==
  /\ outputs = NoOutputs
  /\ eagle_cache = NewCache("none")
  /\ seq_length = 0
  /\ hidden_states = NoneT
  /\ logits = NoneT
  /\ input_ids = NoneT
  /\ loss_mask = NoneT
  /\ attention_mask = NoneMask
  /\ original_position_ids = NoneT
  /\ current_position_ids = NoneT
  /\ i = 0
  /\ loss_list = <<>>
  /\ loss = NoneT
  /\ eagle_logits = NoneT
  /\ eagle_hidden_states = NoneT

Idle ==
  /\ pc = "idle"
  /\ args = NoArgs
  /\ IdleLocals
  /\ result = NoResult
  /\ raised = "none"
  /\ draft_calls = <<>>
  /\ loss_calls = <<>>
  /\ nshift = 0

Init ==
  /\ num_layers \in {1, MaxLayers}
  /\ Idle
  /\ unit = NoUnit

\* --------------------------------------------------------------------- forward
\* loss_weight = [0.8 ** i for i in range(4)], in 1/1000
RECURSIVE DecayPow(_)
DecayPow(n) == IF n = 0 THEN 1000 ELSE (DecayPow(n - 1) * DecayTenths) \div 10

LossWeight == [k \in 1..NumWeights |-> DecayPow(k - 1)]

\* faulty variant: the regression loss is added to the recorded loss
EagleLossPolicySum(regression_loss, classification_loss) ==
  regression_loss + classification_loss

\* eagle_loss = (classification_loss): the classification loss only, for EAGLE-3
EagleLossPolicy(regression_loss, classification_loss) == classification_loss

\* faulty variant: a missing per-step loss counts as zero
DecayedLossSumZeroFill(weights, losses) ==
  [ok |-> TRUE,
   value |-> SumSeq([k \in 1..SumRange |->
               IF k <= Len(losses) /\ k <= Len(weights) THEN weights[k] * losses[k] ELSE 0])]

\* sum([loss_weight[i] * loss_list[i] for i in range(4)]), in 1/100000; indexing a
\* list past its end raises IndexError
DecayedLossSum(weights, losses) ==
  IF \A k \in 1..SumRange : k <= Len(weights) /\ k <= Len(losses)
  THEN [ok |-> TRUE, value |-> SumSeq([k \in 1..SumRange |-> weights[k] * losses[k]])]
  ELSE [ok |-> FALSE, value |-> 0]

\* faulty variant: a draft cache an earlier call left behind is taken up again
EntryEagleCacheKept(left_behind) ==
  IF left_behind.obj = "eagle" THEN left_behind ELSE NewCache("eagle")

\* eagle_cache = DynamicCache(): a new, empty cache, whatever was there before
EntryEagleCache(left_behind) == NewCache("eagle")

\* faulty variant: the cache length is not added to the position ids
StepPositionIdsFrozen(position_ids, cache_length) == position_ids

\* current_position_ids = original_position_ids + cache_length
StepPositionIds(position_ids, cache_length) ==
  [j \in 1..Len(position_ids) |-> position_ids[j] + cache_length]

\* a caller invokes forward; its first statement makes the draft cache
Call ==
  /\ pc = "idle"
  /\ \E a \in ForwardArgs : args' = a
  /\ eagle_cache' = EntryEagleCache(eagle_cache)
  /\ pc' = "backbone"
  /\ UNCHANGED <<num_layers, outputs, seq_length, hidden_states, logits, input_ids,
                 loss_mask, attention_mask, original_position_ids, current_position_ids,
                 i, loss_list, loss, eagle_logits, eagle_hidden_states,
                 result, raised, history, unit>>

\* forward from the backbone pass up to the loop: the backbone pass, the fc projection, the position
\* ids and the causal attention mask
Backbone ==
  /\ pc = "backbone"
  /\ LET S == Len(args.input_ids)
         ones == [j \in 1..S |-> 1]
     IN /\ \E lg \in BackboneLogits(S) :
             outputs' = [logits |-> lg, hidden_states |-> BackboneHidden(S),
                         past_key_values |-> [obj |-> "backbone", layers |-> <<S>>]]
        /\ seq_length' = S
        /\ hidden_states' = [j \in 1..S |-> [k \in 1..Hidden |-> 0]]
        /\ input_ids' = args.input_ids
        /\ loss_mask' = args.loss_mask
        /\ attention_mask' =
             [id |-> 1,
              data |-> PrepareDecoderAttentionMask(
                         IF args.attention_mask = NoneT THEN ones ELSE args.attention_mask,
                         S, 0)]
        /\ original_position_ids' =
             IF args.position_ids = NoneT THEN [j \in 1..S |-> j - 1] ELSE args.position_ids
  /\ logits' = outputs'.logits
  /\ current_position_ids' = NoneT
  /\ i' = 0
  /\ loss_list' = <<>>
  /\ loss' = NoneT
  /\ eagle_logits' = NoneT
  /\ eagle_hidden_states' = NoneT
  /\ pc' = "rollout"
  /\ UNCHANGED <<num_layers, args, eagle_cache, result, raised, history, unit>>

\* one iteration of the loop: the draft module, the losses, the shifts and the band
RolloutStep ==
  /\ pc = "rollout"
  /\ i < Steps
  /\ LET cache_length == GetSeqLength(eagle_cache)
         position_ids == StepPositionIds(original_position_ids, cache_length)
         call == EagleModuleForward(attention_mask, Len(hidden_states), eagle_cache, num_layers)
         shift == i < ShiftUntil
     IN /\ current_position_ids' = position_ids
        /\ eagle_cache' = call.past_key_values
        /\ \E d \in DraftOutputs(seq_length, outputs.hidden_states, logits) :
             LET el == EagleLoss(outputs.hidden_states, logits, d.eagle_hidden_states,
                                 d.eagle_logits, loss_mask)
             IN /\ draft_calls' = Append(draft_calls,
                     [step |-> i, attention_mask |-> call.attention_mask, kv |-> call.kv,
                      position_ids |-> position_ids, cache_in |-> cache_length,
                      cache_out |-> GetSeqLength(call.past_key_values),
                      square |-> attention_mask,
                      cache_given |-> eagle_cache,
                      cache_returned |-> call.past_key_values])
                /\ eagle_hidden_states' = d.eagle_hidden_states
                /\ eagle_logits' = d.eagle_logits
                /\ hidden_states' = d.eagle_hidden_states
                /\ IF loss_mask # NoneT
                   THEN /\ loss_list' = Append(loss_list,
                             EagleLossPolicy(el.regression_loss, el.classification_loss))
                        /\ loss_calls' = Append(loss_calls,
                             [regression_loss |-> el.regression_loss,
                              classification_loss |-> el.classification_loss])
                   ELSE UNCHANGED <<loss_list, loss_calls>>
        /\ loss' = IF ~args.freeze_base_model /\ args.labels # NoneT
                   THEN <<CrossEntropyLoss(logits, args.labels)>> ELSE NoneT
        /\ logits' = IF shift THEN ShiftLeft(logits, ZeroRow(Len(logits[1]))) ELSE logits
        /\ input_ids' = IF shift THEN ShiftLeft(input_ids, 0) ELSE input_ids
        /\ loss_mask' = IF shift /\ loss_mask # NoneT THEN ShiftLeft(loss_mask, 0) ELSE loss_mask
        /\ attention_mask' = IF shift /\ BandShapesAgree(seq_length, i)
                             THEN BlockBand(attention_mask, seq_length, i) ELSE attention_mask
        /\ nshift' = IF shift THEN nshift + 1 ELSE nshift
        /\ IF shift /\ ~BandShapesAgree(seq_length, i)
           THEN pc' = "error" /\ raised' = "IndexError"
           ELSE pc' = "rollout" /\ raised' = raised
  /\ i' = i + 1
  /\ UNCHANGED <<num_layers, args, outputs, seq_length, original_position_ids, result, unit>>

\* after the loop: the decayed sum and the returned ModelOutput
Finish ==
  /\ pc = "rollout"
  /\ i >= Steps
  /\ LET total == DecayedLossSum(LossWeight, loss_list)
     IN IF total.ok
        THEN /\ loss' = <<total.value>>
             /\ result' = [loss |-> <<total.value>>, logits |-> logits,
                           eagle_logits |-> eagle_logits,
                           past_key_values |-> outputs.past_key_values,
                           hidden_states |-> outputs.hidden_states]
             /\ pc' = "done"
             /\ raised' = raised
        ELSE /\ pc' = "error"
             /\ raised' = "IndexError"
             /\ UNCHANGED <<loss, result>>
  /\ UNCHANGED <<num_layers, args, outputs, eagle_cache, seq_length, hidden_states, logits,
                 input_ids, loss_mask, attention_mask, original_position_ids,
                 current_position_ids, i, loss_list, eagle_logits, eagle_hidden_states,
                 history, unit>>

\* the call is over (returned or raised): its locals are gone; the draft cache
\* object is kept in view, dead, to show that the next call does not take it up
Return ==
  /\ pc \in {"done", "error"}
  /\ pc' = "idle"
  /\ args' = NoArgs
  /\ outputs' = NoOutputs
  /\ eagle_cache' = eagle_cache
  /\ seq_length' = 0
  /\ hidden_states' = NoneT
  /\ logits' = NoneT
  /\ input_ids' = NoneT
  /\ loss_mask' = NoneT
  /\ attention_mask' = NoneMask
  /\ original_position_ids' = NoneT
  /\ current_position_ids' = NoneT
  /\ i' = 0
  /\ loss_list' = <<>>
  /\ loss' = NoneT
  /\ eagle_logits' = NoneT
  /\ eagle_hidden_states' = NoneT
  /\ result' = NoResult
  /\ raised' = "none"
  /\ draft_calls' = <<>>
  /\ loss_calls' = <<>>
  /\ nshift' = 0
  /\ UNCHANGED <<num_layers, unit>>

Next == Call \/ Backbone \/ RolloutStep \/ Finish \/ Return

Spec == Init /\ [][Next]_vars

\* ------------------------------------------- direct calls of the mask builder
MaskShapes == SeqLens \X SeqLens

TreeMaskInputs ==
  {NoneMask} \cup
  {[id |-> 1, data |-> Full(sh[1], sh[2], v)] : sh \in MaskShapes, v \in {0, FinfoMin}} \cup
  {[id |-> 1, data |-> [r \in 1..sh[1] |-> [c \in 1..sh[2] |-> IF c <= r THEN 0 ELSE FinfoMin]]] :
     sh \in MaskShapes}

TreeMaskCalls ==
  [fn : {"tree_mask"}, attention_mask : TreeMaskInputs, seq_lens : SeqLens,
   past_key_values_length : 0..MaxCache, returned : {FALSE}, ret : {NoneMask}]

InitMask ==
  /\ num_layers = 1
  /\ Idle
  /\ unit \in TreeMaskCalls

\* EagleModule._prepare_tree_attention_mask is called and returns
TreeMaskCall ==
  /\ unit.fn = "tree_mask"
  /\ ~unit.returned
  /\ unit' = [unit EXCEPT
       !.ret = PrepareTreeAttentionMask(unit.attention_mask, unit.seq_lens,
                                        unit.past_key_values_length),
       !.returned = TRUE]
  /\ UNCHANGED <<num_layers, pc, args, locals, result, raised, history>>

NextMask == TreeMaskCall

SpecMask == InitMask /\ [][NextMask]_vars

\* ------------------------------------------------- direct calls of _eagle_loss
LossLogits(S) ==
  {PeakedLogits(S, o, h) : o \in 0..(Vocab - 1), h \in {0, PeakLogit, SatLogit}}

EagleLossCalls ==
  UNION {[fn : {"eagle_loss"}, hidden_states : {BackboneHidden(S)}, logits : LossLogits(S),
          eagle_hidden_states : {BackboneHidden(S), [j \in 1..S |-> [k \in 1..Hidden |-> 0]]},
          eagle_logits : LossLogits(S), loss_mask : [1..S -> {0, 1}],
          returned : {FALSE}, ret : {[regression_loss |-> 0, classification_loss |-> 0]}] :
         S \in SeqLens}

InitLoss ==
  /\ num_layers = 1
  /\ Idle
  /\ unit \in EagleLossCalls

\* HFEagleModel._eagle_loss is called and returns
EagleLossCall ==
  /\ unit.fn = "eagle_loss"
  /\ ~unit.returned
  /\ unit' = [unit EXCEPT
       !.ret = EagleLoss(unit.hidden_states, unit.logits, unit.eagle_hidden_states,
                         unit.eagle_logits, unit.loss_mask),
       !.returned = TRUE]
  /\ UNCHANGED <<num_layers, pc, args, locals, result, raised, history>>

NextLoss == EagleLossCall

SpecLoss == InitLoss /\ [][NextLoss]_vars

\* ===================================================================== claims
InCall == pc \in {"rollout", "done", "error"}

\* the position ids the rollout starts from
BasePositionIds ==
  IF args.position_ids = NoneT THEN [j \in 1..seq_length |-> j - 1] ELSE args.position_ids

\* x shifted left k times with zero padding, stated position by position
ShiftedBy(x, k, zero) ==
  [j \in 1..Len(x) |-> IF j + k <= Len(x) THEN x[j + k] ELSE zero]

\* C1: with a loss mask present, the total loss forward returns is
\* 1.0 * c0 + 0.8 * c1 + 0.64 * c2 + 0.512 * c3, where ci is the classification
\* loss _eagle_loss returned at step i; the regression losses and the base model
\* loss are not part of it.
C1_TotalLossIsDecayedClassificationSum ==
  (pc = "done" /\ args.loss_mask # NoneT) =>
     /\ Len(loss_calls) = 4
     /\ result.loss = << 1000 * loss_calls[1].classification_loss
                         + 800 * loss_calls[2].classification_loss
                         + 640 * loss_calls[3].classification_loss
                         + 512 * loss_calls[4].classification_loss >>

C1_Witness ==
  /\ pc = "done"
  /\ args.loss_mask # NoneT
  /\ ~args.freeze_base_model
  /\ args.labels # NoneT
  /\ \E k \in 1..4 : loss_calls[k].regression_loss > 0
  /\ loss_calls[1].classification_loss > 0
  /\ loss_calls[1].classification_loss # loss_calls[2].classification_loss
  /\ loss_calls[4].classification_loss > 0

\* C2: without a loss mask no step records a loss, forward never returns a
\* result, and the decayed sum raises IndexError out of forward.
C2_NoLossMaskRaises ==
  (pc # "idle" /\ args.loss_mask = NoneT) =>
     /\ loss_list = <<>>
     /\ loss_calls = <<>>
     /\ pc # "done"
     /\ result = NoResult
     /\ (pc = "error" => raised = "IndexError" /\ i = Steps)

C2_Witness ==
  /\ pc = "error"
  /\ raised = "IndexError"
  /\ args.loss_mask = NoneT
  /\ Len(draft_calls) = 4
  /\ loss_list = <<>>
  /\ result = NoResult

\* C3: for a mask [tgt_len, src_len] and a cache length > 0 the builder returns
\* a mask of width src_len + cache_len whose 0 entries in the columns >= src_len
\* are exactly (i, src_len + b * seq_lens + i), b < cache_len // seq_lens,
\* i < min(tgt_len, seq_lens); every other entry there is the sentinel, and the
\* remainder columns hold no 0.
C3_DiagonalBlocks ==
  (unit.fn = "tree_mask" /\ unit.returned /\ unit.attention_mask # NoneMask
     /\ unit.past_key_values_length > 0) =>
     LET tgt_len == Len(unit.attention_mask.data)
         src_len == Len(unit.attention_mask.data[1])
         cache_len == unit.past_key_values_length
         blocks == cache_len \div unit.seq_lens
         rows == Min(tgt_len, unit.seq_lens)
         m == unit.ret.data
         ext == (0..(tgt_len - 1)) \X (src_len..(src_len + cache_len - 1))
         zeros == {rc \in ext : m[rc[1] + 1][rc[2] + 1] = 0}
     IN /\ Len(m) = tgt_len
        /\ \A r \in 1..tgt_len : Len(m[r]) = src_len + cache_len
        /\ zeros = {<<ii, src_len + b * unit.seq_lens + ii>> :
                      b \in 0..(blocks - 1), ii \in 0..(rows - 1)}
        /\ Cardinality(zeros) = blocks * rows
        /\ \A rc \in ext \ zeros : m[rc[1] + 1][rc[2] + 1] = FinfoMin
        /\ \A rc \in zeros : rc[2] < src_len + blocks * unit.seq_lens

C3_Witness ==
  /\ unit.fn = "tree_mask"
  /\ unit.returned
  /\ unit.attention_mask # NoneMask
  /\ Len(unit.attention_mask.data) = 3
  /\ Len(unit.attention_mask.data[1]) = 2
  /\ unit.seq_lens = 2
  /\ unit.past_key_values_length = 5
  /\ unit.ret.data[2][2 + 2 + 2] = 0
  /\ unit.ret.data[1][2 + 5] = FinfoMin

\* C4: with a cache length of 0 the builder returns the very tensor it was
\* given: the same object, with the same shape and entries.
C4_NoCacheReturnsInput ==
  (unit.fn = "tree_mask" /\ unit.returned /\ unit.past_key_values_length = 0) =>
     /\ unit.ret.id = unit.attention_mask.id
     /\ unit.ret.data = unit.attention_mask.data

C4_Witness ==
  /\ unit.fn = "tree_mask"
  /\ unit.returned
  /\ unit.past_key_values_length = 0
  /\ unit.attention_mask # NoneMask
  /\ Len(unit.ret.data) = 3
  /\ Len(unit.ret.data[1]) = 2
  /\ unit.ret.id = 1

\* C5: the k-th call of the draft module in a rollout finds the cache at length
\* (k - 1) * seq and leaves it at k * seq, in every layer; the length never
\* shrinks.
C5_CacheGrowsBySeq ==
  InCall =>
     /\ \A k \in 1..Len(draft_calls) :
          /\ draft_calls[k].cache_in = (k - 1) * seq_length
          /\ draft_calls[k].cache_out = draft_calls[k].cache_in + seq_length
          /\ k > 1 => draft_calls[k].cache_out = draft_calls[k - 1].cache_in + 2 * seq_length
     /\ GetSeqLength(eagle_cache) = Len(draft_calls) * seq_length
     /\ Len(draft_calls) > 0 =>
          /\ Len(eagle_cache.layers) = num_layers
          /\ \A l \in 1..num_layers : eagle_cache.layers[l] = Len(draft_calls) * seq_length

C5_Witness ==
  /\ pc = "done"
  /\ num_layers = MaxLayers
  /\ seq_length = 3
  /\ Len(draft_calls) = 4
  /\ draft_calls[2].cache_in = 3
  /\ draft_calls[3].cache_out = 9
  /\ GetSeqLength(eagle_cache) = 12

\* C6: logits, input_ids and loss_mask are shifted left once after each step
\* but the last, 3 times in all; after k shifts each has its original length,
\* position j holds the original position j + k, and the last k positions are 0.
C6_ShiftLeftZeroPad ==
  InCall =>
     /\ nshift = Min(i, 3)
     /\ i = Steps => nshift = 3
     /\ logits = ShiftedBy(outputs.logits, nshift, ZeroRow(Vocab))
     /\ input_ids = ShiftedBy(args.input_ids, nshift, 0)
     /\ loss_mask = ShiftedBy(args.loss_mask, nshift, 0)
     /\ Len(logits) = seq_length /\ Len(input_ids) = seq_length
     /\ args.loss_mask # NoneT => Len(loss_mask) = seq_length
     /\ \A j \in 1..seq_length : j > seq_length - nshift =>
          /\ logits[j] = ZeroRow(Vocab)
          /\ input_ids[j] = 0
          /\ args.loss_mask # NoneT => loss_mask[j] = 0

C6_Witness ==
  /\ pc = "done"
  /\ seq_length = 4
  /\ nshift = 3
  /\ logits[1] = outputs.logits[4]
  /\ logits[1] # ZeroRow(Vocab)
  /\ input_ids[1] = args.input_ids[4]
  /\ input_ids[1] # 0
  /\ loss_mask[1] = 1
  /\ loss_mask[2] = 0

\* the arguments of a direct _eagle_loss call are draft = backbone, mask all ones
IdenticalAllOnes ==
  /\ unit.eagle_hidden_states = unit.hidden_states
  /\ unit.eagle_logits = unit.logits
  /\ \A j \in 1..Len(unit.loss_mask) : unit.loss_mask[j] = 1

\* the softmax of the row is one-hot (saturated)
OneHot(row) == \E v \in 1..Len(row) : SoftmaxRow(row)[v] = 1000

\* the entropy of the softmax of one row: minus the sum of p * log p, in 1/100
EntropyRow(row) ==
  LET m == MaxSeqVal(row)
      z == SumSeq([v \in 1..Len(row) |-> ExpNeg(m - row[v])])
      p == [v \in 1..Len(row) |-> (ExpNeg(m - row[v]) * 1000) \div z]
  IN SumSeq([v \in 1..Len(row) |-> p[v] * (100 * (m - row[v]) + LnCenti(z))]) \div 1000

\* C7 as stated: both losses are exactly 0 when the draft tensors equal the
\* backbone tensors and the mask is all ones, and both are non-negative.
C7_BothZeroWhenIdentical ==
  (unit.fn = "eagle_loss" /\ unit.returned) =>
     /\ unit.ret.regression_loss >= 0
     /\ unit.ret.classification_loss >= 0
     /\ IdenticalAllOnes =>
          /\ unit.ret.regression_loss = 0
          /\ unit.ret.classification_loss = 0

\* C7 amended: both losses are non-negative; with draft = backbone and an
\* all-ones mask the regression loss is exactly 0 and the classification loss
\* is the entropy of the backbone distribution averaged over the positions,
\* which is 0 only when every softmax row is one-hot.
C7_RegressionZeroClassificationEntropy ==
  (unit.fn = "eagle_loss" /\ unit.returned) =>
     /\ unit.ret.regression_loss >= 0
     /\ unit.ret.classification_loss >= 0
     /\ IdenticalAllOnes =>
          LET n == Len(unit.logits)
          IN /\ unit.ret.regression_loss = 0
             /\ unit.ret.classification_loss =
                  (SumSeq([j \in 1..n |-> EntropyRow(unit.logits[j])]) * 100000)
                     \div (n * 100000 + 1)
             /\ unit.ret.classification_loss = 0 <=>
                  \A j \in 1..n : OneHot(unit.logits[j])

C7_Witness ==
  /\ unit.fn = "eagle_loss"
  /\ unit.returned
  /\ IdenticalAllOnes
  /\ Len(unit.logits) = 3
  /\ ~OneHot(unit.logits[1])
  /\ unit.ret.regression_loss = 0
  /\ unit.ret.classification_loss > 0

\* C8 as stated: forward returns the backbone's base logits as logits, with the
\* total loss and the draft logits of the last step; the backbone output is
\* unchanged.
C8_ReturnsBaseLogits ==
  pc = "done" =>
     /\ result.logits = outputs.logits
     /\ result.eagle_logits = eagle_logits
     /\ result.loss = loss
     /\ outputs.logits \in BackboneLogits(seq_length)

\* C9: an entry of the square region that is blocked in the mask the draft
\* module is given at one step is blocked in the mask it is given at every
\* later step.
C9_SquareRegionMonotone ==
  \A a \in 1..Len(draft_calls) : \A b \in 1..Len(draft_calls) :
     a < b =>
       \A r \in 1..seq_length : \A c \in 1..seq_length :
          draft_calls[a].attention_mask.data[r][c] # 0 =>
             draft_calls[b].attention_mask.data[r][c] # 0

C9_Witness ==
  /\ Len(draft_calls) = 4
  /\ seq_length = 4
  /\ draft_calls[1].attention_mask.data[3][3] = 0
  /\ draft_calls[2].attention_mask.data[3][3] = FinfoMin
  /\ draft_calls[2].attention_mask.data[3][2] = 0
  /\ draft_calls[3].attention_mask.data[3][2] = FinfoMin
  /\ draft_calls[4].attention_mask.data[3][3] = FinfoMin
  /\ draft_calls[4].attention_mask.data[3][2] = FinfoMin

\* C10: at step i the position ids given to the rotary embedding and to the
\* draft module are the base position ids plus i * seq, and the base position
\* ids are not changed by the loop.
C10_PositionIdsAdvanceByCache ==
  InCall =>
     /\ original_position_ids = BasePositionIds
     /\ \A k \in 1..Len(draft_calls) :
          /\ draft_calls[k].step = k - 1
          /\ draft_calls[k].position_ids =
               [j \in 1..seq_length |-> BasePositionIds[j] + (k - 1) * seq_length]
     /\ Len(draft_calls) > 0 => current_position_ids = draft_calls[Len(draft_calls)].position_ids

C10_Witness ==
  /\ pc = "done"
  /\ seq_length = 3
  /\ args.position_ids # NoneT
  /\ Len(draft_calls) = 4
  /\ draft_calls[1].position_ids = <<1, 2, 3>>
  /\ draft_calls[4].position_ids = <<10, 11, 12>>
  /\ original_position_ids = <<1, 2, 3>>

\* the running square mask as it is after the k-th step of the call
RunningMaskAfter(k) ==
  IF k < Len(draft_calls) THEN draft_calls[k + 1].square ELSE attention_mask

\* C11: step i in {0, 1, 2} sets the entries (r, r - i), r in [i, S), of the
\* running square mask to the sentinel and changes nothing else; the last step
\* leaves the mask as it is; so at step k the draft module finds row r of the
\* square region allowed at most for the columns c <= r - k.
C11_BandBlockedPerStep ==
  InCall =>
     \A k \in 1..Len(draft_calls) :
        LET before == draft_calls[k].square
            after == RunningMaskAfter(k)
            step == k - 1
        IN /\ after.id = before.id
           /\ Len(after.data) = seq_length
           /\ \A r \in 0..(seq_length - 1) : \A c \in 0..(seq_length - 1) :
                /\ after.data[r + 1][c + 1] =
                     IF step \in {0, 1, 2} /\ r >= step /\ c = r - step
                     THEN FinfoMin
                     ELSE before.data[r + 1][c + 1]
                /\ draft_calls[k].attention_mask.data[r + 1][c + 1] = 0 => c <= r - step

C11_Witness ==
  /\ pc = "done"
  /\ seq_length = 4
  /\ args.attention_mask = NoneT
  /\ draft_calls[2].square.data[4] = <<0, 0, 0, FinfoMin>>
  /\ draft_calls[3].square.data[4] = <<0, 0, FinfoMin, FinfoMin>>
  /\ draft_calls[4].square.data[4] = <<0, FinfoMin, FinfoMin, FinfoMin>>
  /\ draft_calls[4].square.data[2] = <<FinfoMin, FinfoMin, FinfoMin, FinfoMin>>
  /\ attention_mask = draft_calls[4].square

\* C12: every forward call starts its rollout with a new, empty draft cache,
\* whatever cache an earlier call left behind; the cache given to the draft
\* module at a step is the one the step before returned; and the cache forward
\* returns is the backbone's, not the draft cache.
C12_DraftCachePerCall ==
  /\ pc = "backbone" => eagle_cache = [obj |-> "eagle", layers |-> <<>>]
  /\ InCall =>
       /\ Len(draft_calls) = 0 => eagle_cache = [obj |-> "eagle", layers |-> <<>>]
       /\ \A k \in 1..Len(draft_calls) :
            /\ draft_calls[k].cache_given =
                 IF k = 1 THEN [obj |-> "eagle", layers |-> <<>>]
                 ELSE draft_calls[k - 1].cache_returned
            /\ draft_calls[k].cache_in = GetSeqLength(draft_calls[k].cache_given)
       /\ Len(draft_calls) > 0 => eagle_cache = draft_calls[Len(draft_calls)].cache_returned
  /\ pc = "done" =>
       /\ result.past_key_values = outputs.past_key_values
       /\ result.past_key_values.obj = "backbone"
       /\ result.past_key_values # eagle_cache

C12_Witness ==
  /\ pc = "done"
  /\ num_layers = MaxLayers
  /\ seq_length = 2
  /\ draft_calls[1].cache_given.layers = <<>>
  /\ draft_calls[2].cache_given.layers = <<2, 2>>
  /\ draft_calls[4].cache_returned.layers = <<8, 8>>
  /\ result.past_key_values = [obj |-> "backbone", layers |-> <<2>>]

\* C13: at every rollout step every entry of the mask given to the draft layers
\* is 0 or the sentinel finfo.min.  Refuted: where a padded column of the
\* caller's attention mask lies above the causal diagonal, line 509 adds two
\* sentinels and the entry is -inf, which the builder copies into every
\* extended mask.
C13_MaskEntriesZeroOrMin ==
  InCall =>
     \A k \in 1..Len(draft_calls) :
        LET m == draft_calls[k].attention_mask.data
        IN \A r \in 1..Len(m) : \A c \in 1..Len(m[r]) : m[r][c] \in {0, FinfoMin}

\* C14: at every rollout step i the extended mask has S rows of width
\* (i + 1) * S, which is S plus the cache length read before the step and also
\* the number of keys every draft layer attends over once it has appended its
\* S new keys; the running mask of the loop stays S by S.
C14_MaskWidthMatchesKeys ==
  InCall =>
     /\ \A k \in 1..Len(draft_calls) :
          LET call == draft_calls[k]
              m == call.attention_mask.data
          IN /\ call.step = k - 1
             /\ Len(m) = seq_length
             /\ Len(call.kv) = num_layers
             /\ \A r \in 1..Len(m) :
                  /\ Len(m[r]) = (call.step + 1) * seq_length
                  /\ Len(m[r]) = seq_length + call.cache_in
                  /\ \A l \in 1..Len(call.kv) : call.kv[l] = Len(m[r])
             /\ Len(call.square.data) = seq_length
             /\ \A r \in 1..Len(call.square.data) : Len(call.square.data[r]) = seq_length
     /\ Len(attention_mask.data) = seq_length
     /\ \A r \in 1..Len(attention_mask.data) : Len(attention_mask.data[r]) = seq_length

C14_Witness ==
  /\ pc = "done"
  /\ num_layers = MaxLayers
  /\ seq_length = 3
  /\ draft_calls[1].kv = <<3, 3>>
  /\ Len(draft_calls[1].attention_mask.data[3]) = 3
  /\ draft_calls[4].kv = <<12, 12>>
  /\ draft_calls[4].cache_in = 9
  /\ Len(draft_calls[4].attention_mask.data[3]) = 12
  /\ Len(attention_mask.data[3]) = 3

\* C15: when forward is called without an attention mask, every query row of
\* the mask the draft module attends with has an allowed column at every step:
\* at step 0 row r allows exactly columns 0..r; at step k >= 1 row r allows its
\* diagonal entry in each of the k cache blocks, while row 0 of the square
\* region is wholly blocked from step 1 on.
C15_EveryRowHasAllowedColumn ==
  (InCall /\ args.attention_mask = NoneT) =>
     \A k \in 1..Len(draft_calls) :
        LET m == draft_calls[k].attention_mask.data
            step == k - 1
        IN \A r \in 0..(seq_length - 1) :
             /\ \E c \in 1..Len(m[r + 1]) : m[r + 1][c] = 0
             /\ step = 0 => \A c \in 0..(seq_length - 1) : (m[r + 1][c + 1] = 0) <=> (c <= r)
             /\ step >= 1 =>
                  /\ \A b \in 0..(step - 1) : m[r + 1][seq_length + b * seq_length + r + 1] = 0
                  /\ \A c \in 1..seq_length : m[1][c] # 0

C15_Witness ==
  /\ pc = "done"
  /\ args.attention_mask = NoneT
  /\ seq_length = 3
  /\ draft_calls[1].attention_mask.data[1] = <<0, FinfoMin, FinfoMin>>
  /\ draft_calls[2].attention_mask.data[1] =
       <<FinfoMin, FinfoMin, FinfoMin, 0, FinfoMin, FinfoMin>>
  /\ draft_calls[4].attention_mask.data[3] =
       <<FinfoMin, FinfoMin, FinfoMin, FinfoMin, FinfoMin, 0,
         FinfoMin, FinfoMin, 0, FinfoMin, FinfoMin, 0>>

\* C16: at rollout step i the loss mask is 0 on the last i positions, where the
\* target logits and the input ids hold zero padding, and the loss recorded for
\* step i is the masked mean over the positions j < S - i alone of the soft
\* cross-entropy between the draft logits at j and the backbone's original
\* logits at j + i, weighted by the original loss mask at j + i.
C16_StepLossSkipsPadding ==
  (InCall /\ args.loss_mask # NoneT) =>
     LET S == seq_length
         next == Min(Len(draft_calls), ShiftUntil)
     IN /\ \A j \in 1..S :
             j > S - next =>
                /\ loss_mask[j] = 0
                /\ logits[j] = ZeroRow(Vocab)
                /\ input_ids[j] = 0
        /\ loss_mask = ShiftedBy(args.loss_mask, next, 0)
        /\ Len(loss_calls) = Len(draft_calls)
        /\ Len(loss_calls) >= 1 =>
             LET step == Len(loss_calls) - 1
                 c == SumSeq([j \in 1..(S - step) |->
                        args.loss_mask[j + step]
                          * SoftCrossEntropyRow(outputs.logits[j + step], eagle_logits[j])])
                 m == SumSeq([j \in 1..(S - step) |-> args.loss_mask[j + step]])
             IN /\ loss_calls[step + 1].classification_loss = DivMaskSum(c, m)
                /\ loss_list[step + 1] = DivMaskSum(c, m)

C16_Witness ==
  /\ pc = "done"
  /\ seq_length = 4
  /\ args.loss_mask = <<1, 1, 1, 1>>
  /\ loss_mask = <<1, 0, 0, 0>>
  /\ logits[2] = ZeroRow(Vocab)
  /\ eagle_logits = [j \in 1..4 |-> Peak(1, PeakLogit)]
  /\ eagle_logits[1] # outputs.logits[4]
  /\ loss_calls[4].classification_loss > 0
  /\ loss_calls[4].classification_loss =
       SoftCrossEntropyRow(outputs.logits[4], eagle_logits[1]) - 1

====
